---- MODULE Spec2Model ----
(***************************************************************************)
(* The checkpoint/restore protocol of crio: the checkpoint() context       *)
(* manager of src/crio/ckpt_execvp.py and of its variants                  *)
(* src/crio/ideas/ckpt_early.py, src/cryo/ckpt.py,                         *)
(* src/crio/ideas/ckpt_fixed_claude.py and                                 *)
(* src/crio/ideas/ckpt_fixed_o1_attempt_1.py, run by several processes on  *)
(* one checkpoint identity.                                                *)
(*                                                                         *)
(* src/crio/ideas/ckpt_fixed_r1.py turns the roles round: the process it   *)
(* forks is a helper that is to dump its parent, and the calling process   *)
(* runs the block and stops itself.  It has a specification of its own,    *)
(* SpecR1, with the steps of each process weakly fair.                     *)
(*                                                                         *)
(* A process slot p is one invocation of checkpoint(): the calling process *)
(* (the controller on the dump path) and the worker it forks.  Steps are   *)
(* system calls; the file system, the flock state of the lock file's       *)
(* inodes and the worker's OS state are shared.                            *)
(*                                                                         *)
(* The identity of a checkpoint, _generate_checkpoint_id, is a pure        *)
(* function of the context, the runtime version and the environment; it is *)
(* modelled by operators and exercised by a specification of its own,      *)
(* SpecId, which applies it to two contexts under one environment.         *)
(***************************************************************************)
EXTENDS Integers, FiniteSets, Sequences, TLC

\* ------------------------------------------------------------------ bounds
Procs == {"p1", "p2"}

MaxCalls == 3

MaxElapsed == 6

\* calls of clear_checkpoints made from outside checkpoint()
MaxClears == 2

\* the "5 second timeout" of the wait loop
Timeout == 5

\* the most keys a caller's context has
MaxCtxLen == 2

Variants == {"execvp", "early", "cryo", "claude", "o1"}

\* the variants whose wait for the stop notification is the timed loop
LoopVariants == {"early", "cryo", "o1"}

VARIABLES
    variant,    \* which source file every process runs
    calls,      \* invocations of checkpoint() started so far
    baseDir,    \* <cache>/<id> exists
    tmpDir,     \* /tmp/criu-<id> exists
    link,       \* <cache>/<id>/ckpt (the symlink) exists
    marker,     \* checkpoint.exists exists
    lockPath,   \* inode the path <cache>/<id>/crio.lock names; 0: no such file
    pc,         \* the calling process's position in checkpoint()
    lockFd,     \* the variable lock_fd: "None", "open", "closed" (set, descriptor closed)
    wfd,        \* the worker still holds the descriptor it inherited at fork
    ofdInode,   \* inode of the open file description made by p's os.open; 0: none
    ofdLocked,  \* that open file description holds the flock
    w,          \* the forked process's state: the worker's OS state; in
                \* ckpt_fixed_r1.py the helper's position
    wexit,      \* the worker's exit status once it has exited
    wexc,       \* the exception a worker that has left checkpoint() left it
                \* with; "none": none
    dump,       \* the dump tool run by p: "none", "running", "ok", "failed"
    elapsed,    \* seconds since start_time, while p is in the wait loop
    path,       \* the branch taken at the marker check: "none", "restore", "fork"
    exc,        \* the exception in flight (or raised to the caller)
    outcome,    \* how the invocation ended in the calling process
    flockRes,   \* the flock attempt: "none", "granted", "refused"
    markerAtStart, \* the marker was present when the call began
    markerAtCheck, \* the marker was present at the check under the lock
    sawStop,    \* waitpid reported the worker stopped
    ranBlock,   \* which process ran the caller's block: "none", "worker", "caller"
    dumpOkEver, \* some dump-tool run has returned success
    clearedSince, \* a clear_checkpoints has run since p's call began
    other,      \* the record (both directories) of another identity exists
    clears,     \* calls of clear_checkpoints made so far from outside checkpoint()
    kills,      \* calling processes terminated so far from outside
    ctxA,       \* the context argument of a first call of _generate_checkpoint_id
    ctxB,       \* the context argument of a second call
    environ,    \* os.environ: the names of the variables, in its order
    recA,       \* checkpoint_context as the first call serialises it
    recB,       \* the same of the second call
    idA,        \* what the first call returned; -1: not called
    idB,        \* what the second call returned; -1: not called
    clearExc,   \* what the clear_checkpoints call that has just ended raised:
                \* "none", or the entry whose removal failed
    mstate      \* the calling process's OS state: "running", or "stopped" (by
                \* the SIGSTOP it sends itself in ckpt_fixed_r1.py)

fsVars == <<baseDir, tmpDir, link, marker, lockPath>>
lockVars == <<lockFd, wfd, ofdInode, ofdLocked>>
wrkVars == <<w, wexit, wexc, ranBlock>>
histVars == <<path, flockRes, markerAtStart, markerAtCheck, sawStop, dumpOkEver,
              clearedSince>>
idVars == <<ctxA, ctxB, environ, recA, recB, idA, idB>>
envVars == <<variant, other, clears, kills, idVars, mstate>>
vars == <<variant, calls, baseDir, tmpDir, link, marker, lockPath, pc, lockFd,
          wfd, ofdInode, ofdLocked, w, wexit, wexc, dump, elapsed, path, exc,
          outcome, flockRes, markerAtStart, markerAtCheck, sawStop, ranBlock,
          dumpOkEver, clearedSince, other, clears, kills, clearExc, ctxA,
          ctxB, environ, recA, recB, idA, idB, mstate>>

Inodes == 1..(Cardinality(Procs) + 1)

\* ------------------------------------------------------------ the file system

\* checkpoint.exists lives in tmp_checkpoint_dir; in cryo/ckpt.py in checkpoint_dir
MarkerDirExists == IF variant = "cryo" THEN baseDir ELSE tmpDir

\* (tmp_checkpoint_dir / "checkpoint.exists").exists()
MarkerExists == marker /\ MarkerDirExists

\* the linkage test finding no link whatever there is
SymlinkExists_Never == FALSE

\* symlink_path.exists(): follows the link, so a dangling link does not exist
SymlinkExists == baseDir /\ link /\ tmpDir

\* the inode a newly created lock file gets: one that no open file description
\* and no path still refers to
FreshInode == CHOOSE i \in Inodes :
                 /\ \A q \in Procs : ofdInode[q] # i
                 /\ \A j \in Inodes : (j < i) => (\E q \in Procs : ofdInode[q] = j)

\* flock(LOCK_EX | LOCK_NB) fails: another open file description on the same
\* inode holds the lock
LockedByOther(p) ==
    \E q \in Procs : q # p /\ ofdInode[q] = ofdInode[p] /\ ofdLocked[q]

\* shutil.rmtree(base_checkpoint_dir): the directory goes with what is in it,
\* the ckpt link and the name crio.lock (a locked file can be unlinked)
BaseRemoved == baseDir' = FALSE /\ link' = FALSE /\ lockPath' = 0

\* shutil.rmtree(tmp_checkpoint_dir): the images and checkpoint.exists go
TmpRemoved == tmpDir' = FALSE /\ marker' = FALSE

\* what clear_checkpoints(context) does to the identity's record.
\*   cryo/ckpt.py: one directory, which holds the marker;
\*   ckpt_early.py: the two directories are tested and removed independently;
\*   the others: the working directory is tested and removed only inside
\*     "if base_checkpoint_dir.exists()"
ClearContextFs ==
    CASE variant = "cryo" ->
           IF baseDir THEN BaseRemoved /\ marker' = FALSE /\ UNCHANGED tmpDir
                      ELSE UNCHANGED fsVars
      [] variant = "early" ->
           /\ IF baseDir THEN BaseRemoved ELSE UNCHANGED <<baseDir, link, lockPath>>
           /\ IF tmpDir THEN TmpRemoved ELSE UNCHANGED <<tmpDir, marker>>
      [] OTHER ->
           IF baseDir
             THEN /\ BaseRemoved
                  /\ IF tmpDir THEN TmpRemoved ELSE UNCHANGED <<tmpDir, marker>>
             ELSE UNCHANGED fsVars

\* the entries clear_checkpoints(None) removes: the cache directory (the
\* root, which _get_checkpoint_path has made) and the /tmp/criu-* directories
\* there are, this identity's and the other's
ClearEntries ==
    {"root"} \cup (IF tmpDir THEN {"tmp"} ELSE {})
             \cup (IF other THEN {"othertmp"} ELSE {})

\* what clear_checkpoints(None) does, fail being the entry whose rmtree raises
\* ("none": none does).  shutil.rmtree(base_dir) comes first and takes every
\* identity's directory; base_dir.mkdir makes the root again; then the loop
\* over glob("/tmp/criu-*"), in the order glob gives, which an exception ends
ClearAllFs(fail) ==
    CASE fail = "none" -> BaseRemoved /\ TmpRemoved /\ other' = FALSE
      [] fail = "root" -> UNCHANGED <<fsVars, other>>
      [] fail = "tmp" -> BaseRemoved /\ UNCHANGED <<tmpDir, marker>> /\ other' = FALSE
      [] fail = "othertmp" ->
           /\ BaseRemoved
           /\ other' = FALSE
           /\ \/ TmpRemoved
              \/ UNCHANGED <<tmpDir, marker>>

\* where the helper of ckpt_fixed_r1.py can be in its try block (98-126) and
\* at its os._exit (128)
HelperStates == {"hdump", "htouch", "hcont", "hexit"}

\* the forked process exists and has not exited
WorkerAlive(p) ==
    w[p] \in {"start", "block", "stopped", "resumed", "left"} \cup HelperStates

\* a clear_checkpoints runs: the invocations under way (the calling process
\* inside checkpoint(), or its worker still alive) have seen a clear
ClearSeen ==
    clearedSince' = [p \in Procs |->
                        \/ clearedSince[p]
                        \/ pc[p] \notin {"idle", "done"}
                        \/ WorkerAlive(p)]

\* ------------------------------------------------ the checkpoint identity

\* A dict is the sequence of its items <<key, value>> in insertion order, the
\* keys distinct.  A value is <<"str", s>> (a string) or <<"dict", d>> (a
\* dict: the env dict).

\* the keys a caller's context can have, among them the two built-in ones
CtxKeys == {"python_version", "env", "lib", "mode"}

\* the values a caller gives them
CtxVals == {<<"str", "a">>}

\* the names of the environment's variables
EnvNames == {"HOME", "PYTHONHOME", "PYTHONPATH"}

\* the value of every variable of the environment, which is fixed
EnvValue == <<"str", "a">>

\* os.sys.version
Version == <<"str", "3.x">>

\* the order of strings, as far as sort_keys needs it, and their code in the
\* serialisation
Rank ==
    [k \in CtxKeys \cup EnvNames \cup {"str", "dict", "3.x", "a"} |->
        CASE k = "HOME" -> 1 [] k = "PYTHONHOME" -> 2 [] k = "PYTHONPATH" -> 3
          [] k = "env" -> 4 [] k = "lib" -> 5 [] k = "mode" -> 6
          [] k = "python_version" -> 7
          [] k = "3.x" -> 8 [] k = "a" -> 9
          [] k = "str" -> 10 [] k = "dict" -> 11]

\* the sequences over S up to length n
RECURSIVE Arrangements(_, _)
Arrangements(S, n) ==
    IF n = 0 THEN {<<>>}
    ELSE LET shorter == Arrangements(S, n - 1) IN
         shorter \cup {Append(q, x) : q \in shorter, x \in S}

\* no element twice
Distinct(q) == \A i, j \in 1..Len(q) : q[i] = q[j] => i = j

\* the keys of a dict, in its order
KeysOf(d) == [i \in 1..Len(d) |-> d[i][1]]

\* the dicts a caller can pass
Contexts ==
    {d \in Arrangements(CtxKeys \X CtxVals, MaxCtxLen) : Distinct(KeysOf(d))}

\* the context arguments: None or a dict
ContextArgs ==
    {[none |-> TRUE, items |-> <<>>]}
        \cup {[none |-> FALSE, items |-> d] : d \in Contexts}

\* the states os.environ can be in
Environments ==
    {e \in Arrangements(EnvNames, Cardinality(EnvNames)) : Distinct(e)}

\* k.startswith(("PYTHONPATH", "PYTHONHOME"))
AffectsImports(k) == k \in {"PYTHONPATH", "PYTHONHOME"}

\* {k: v for k, v in os.environ.items() if k.startswith(...)}
EnvDict(e) ==
    LET kept == SelectSeq(e, AffectsImports)
    IN [i \in 1..Len(kept) |-> <<kept[i], EnvValue>>]

\* checkpoint_context = {"python_version": ..., "env": {...}}
BuiltIn(e) ==
    << <<"python_version", Version>>, <<"env", <<"dict", EnvDict(e)>> >> >>

HasKey(d, k) == \E i \in 1..Len(d) : d[i][1] = k

\* an assignment in which the key that is there keeps its value
SetItem_KeepOld(d, k, v) ==
    IF HasKey(d, k) THEN d ELSE Append(d, <<k, v>>)

\* d[k] = v: the value of a key that is there is replaced where it stands, a
\* new key goes to the end
SetItem(d, k, v) ==
    IF HasKey(d, k)
      THEN [i \in 1..Len(d) |-> IF d[i][1] = k THEN <<k, v>> ELSE d[i]]
      ELSE Append(d, <<k, v>>)

\* checkpoint_context.update(context): the caller's items, in their order
RECURSIVE Update(_, _)
Update(d, c) ==
    IF c = <<>> THEN d
    ELSE Update(SetItem(d, c[1][1], c[1][2]), Tail(c))

\* the record that is serialised: "if context is not None: update"
CheckpointContext(ctx, e) ==
    IF ctx.none THEN BuiltIn(e) ELSE Update(BuiltIn(e), ctx.items)

\* the items of d whose keys have rank r and above, in the order of the ranks
RECURSIVE SortedFrom(_, _)
SortedFrom(d, r) ==
    IF r > Cardinality(DOMAIN Rank) THEN <<>>
    ELSE SelectSeq(d, LAMBDA it : Rank[it[1]] = r) \o SortedFrom(d, r + 1)

\* a serialisation that leaves the keys in insertion order
SortKeys_Unsorted(d) == d

\* sort_keys=True
SortKeys(d) == SortedFrom(d, 1)

\* json.dumps(d, sort_keys=True), as a sequence of codes; a dict inside
\* is serialised the same way
RECURSIVE Dumps(_)
RECURSIVE DumpsItems(_)
DumpsItems(items) ==
    IF items = <<>> THEN <<>>
    ELSE LET k == items[1][1]
             v == items[1][2]
         IN <<Rank[k]>>
              \o (IF v[1] = "str" THEN <<Rank["str"], Rank[v[2]]>> ELSE Dumps(v[2]))
              \o DumpsItems(Tail(items))

Dumps(d) ==
    LET items == SortKeys(d)
    IN <<Rank["dict"], Len(items)>> \o DumpsItems(items)

\* hashlib.sha256(...).hexdigest()[:16]: a digest of fixed width, here of 16
\* bits
RECURSIVE Digest(_, _)
Digest(q, h) ==
    IF q = <<>> THEN h
    ELSE Digest(Tail(q), (h * 31 + q[1]) % 65536)

\* _generate_checkpoint_id(context)
GenerateCheckpointId(ctx, e) == Digest(Dumps(CheckpointContext(ctx, e)), 7)

\* no call of _generate_checkpoint_id is under observation
IdIdle ==
    /\ ctxA = [none |-> TRUE, items |-> <<>>]
    /\ ctxB = [none |-> TRUE, items |-> <<>>]
    /\ environ = <<>>
    /\ recA = <<>> /\ recB = <<>>
    /\ idA = -1 /\ idB = -1

\* ------------------------------------------------------------------- Init

\* the identity has no record
NoRecord ==
    /\ baseDir = FALSE /\ tmpDir = FALSE /\ link = FALSE /\ marker = FALSE
    /\ lockPath = 0

\* no call has been made: every slot is idle
SlotsIdle ==
    /\ calls = 0
    /\ pc = [p \in Procs |-> "idle"]
    /\ lockFd = [p \in Procs |-> "None"]
    /\ wfd = [p \in Procs |-> FALSE]
    /\ ofdInode = [p \in Procs |-> 0]
    /\ ofdLocked = [p \in Procs |-> FALSE]
    /\ w = [p \in Procs |-> "none"]
    /\ wexit = [p \in Procs |-> 0]
    /\ wexc = [p \in Procs |-> "none"]
    /\ dump = [p \in Procs |-> "none"]
    /\ elapsed = [p \in Procs |-> 0]
    /\ path = [p \in Procs |-> "none"]
    /\ exc = [p \in Procs |-> "none"]
    /\ outcome = [p \in Procs |-> "none"]
    /\ flockRes = [p \in Procs |-> "none"]
    /\ markerAtStart = [p \in Procs |-> FALSE]
    /\ markerAtCheck = [p \in Procs |-> FALSE]
    /\ sawStop = [p \in Procs |-> FALSE]
    /\ ranBlock = [p \in Procs |-> "none"]
    /\ dumpOkEver = FALSE
    /\ clearedSince = [p \in Procs |-> FALSE]
    /\ other = FALSE
    /\ clears = 0
    /\ kills = 0
    /\ clearExc = "none"
    /\ mstate = [p \in Procs |-> "running"]

\* the protocol before any call
ProtocolInit == variant \in Variants /\ NoRecord /\ SlotsIdle

Init == IdIdle /\ ProtocolInit

\* ------------------------------------------------- descriptors and the lock

\* the calling process's descriptor goes away (os.close, process exit, exec of a
\* close-on-exec descriptor); the open file description, and with it the flock,
\* lives on while the worker holds its inherited copy
DropCtrlFd(p) ==
    IF lockFd[p] = "open"
      THEN /\ lockFd' = [lockFd EXCEPT ![p] = "closed"]
           /\ ofdInode' = IF wfd[p] THEN ofdInode ELSE [ofdInode EXCEPT ![p] = 0]
           /\ ofdLocked' = IF wfd[p] THEN ofdLocked ELSE [ofdLocked EXCEPT ![p] = FALSE]
           /\ UNCHANGED wfd
      ELSE UNCHANGED lockVars

\* a close of the worker's copy that released the lock of the open file
\* description it shares with the calling process
DropWrkFd_Releases(p) ==
    /\ wfd' = [wfd EXCEPT ![p] = FALSE]
    /\ ofdLocked' = [ofdLocked EXCEPT ![p] = FALSE]
    /\ ofdInode' = IF lockFd[p] = "open" THEN ofdInode ELSE [ofdInode EXCEPT ![p] = 0]
    /\ UNCHANGED lockFd

\* the worker's inherited descriptor goes away (os.close, or the worker's end)
DropWrkFd(p) ==
    IF wfd[p]
      THEN /\ wfd' = [wfd EXCEPT ![p] = FALSE]
           /\ ofdInode' = IF lockFd[p] = "open" THEN ofdInode ELSE [ofdInode EXCEPT ![p] = 0]
           /\ ofdLocked' = IF lockFd[p] = "open" THEN ofdLocked ELSE [ofdLocked EXCEPT ![p] = FALSE]
           /\ UNCHANGED lockFd
      ELSE UNCHANGED lockVars

\* control leaves the try block of checkpoint() in the calling process, with
\* exception e in flight ("none": none): the finally clause runs, and releases
\* only "if lock_fd is not None"
EnterFinally(p, e) ==
    /\ exc' = [exc EXCEPT ![p] = e]
    /\ IF lockFd[p] = "None"
         THEN /\ pc' = [pc EXCEPT ![p] = "done"]
              /\ outcome' = [outcome EXCEPT ![p] = "raised"]
         ELSE /\ pc' = [pc EXCEPT ![p] = "unlock"]
              /\ UNCHANGED outcome

\* the calling process is between its successful flock and its release
HoldsLock(p) == lockFd[p] = "open" /\ ofdLocked[p]

\* ------------------------------------------------------ the call, path setup

\* what has been done to the system from outside so far: calls of
\* checkpoint(), calls of clear_checkpoints, terminations
Operations == calls + clears + kills

\* slot p is free for a call
Free(p) == pc[p] = "idle" \/ (pc[p] = "done" /\ ~WorkerAlive(p))

\* the slots before p; a call takes the first slot that is free
Before(p) == IF p = "p2" THEN {"p1"} ELSE {}

\* a process calls checkpoint(); a slot whose invocation has ended and whose
\* worker is gone serves the next call
Call(p) ==
    /\ Operations < MaxCalls
    /\ Free(p) /\ \A q \in Before(p) : ~Free(q)
    /\ calls' = calls + 1
    /\ pc' = [pc EXCEPT ![p] = "mkbase"]
    /\ lockFd' = [lockFd EXCEPT ![p] = "None"]
    /\ UNCHANGED <<wfd, ofdInode, ofdLocked>>
    /\ w' = [w EXCEPT ![p] = "none"]
    /\ wexit' = [wexit EXCEPT ![p] = 0]
    /\ wexc' = [wexc EXCEPT ![p] = "none"]
    /\ dump' = [dump EXCEPT ![p] = "none"]
    /\ elapsed' = [elapsed EXCEPT ![p] = 0]
    /\ path' = [path EXCEPT ![p] = "none"]
    /\ exc' = [exc EXCEPT ![p] = "none"]
    /\ outcome' = [outcome EXCEPT ![p] = "none"]
    /\ flockRes' = [flockRes EXCEPT ![p] = "none"]
    /\ markerAtStart' = [markerAtStart EXCEPT ![p] = MarkerExists]
    /\ markerAtCheck' = [markerAtCheck EXCEPT ![p] = FALSE]
    /\ sawStop' = [sawStop EXCEPT ![p] = FALSE]
    /\ ranBlock' = [ranBlock EXCEPT ![p] = "none"]
    /\ clearedSince' = [clearedSince EXCEPT ![p] = FALSE]
    /\ clearExc' = "none"
    /\ UNCHANGED <<envVars, fsVars, dumpOkEver>>

\* base_checkpoint_dir.mkdir(parents=True, exist_ok=True)
MkdirBase(p) ==
    /\ pc[p] = "mkbase"
    /\ baseDir' = TRUE
    /\ pc' = [pc EXCEPT ![p] = IF variant = "cryo" THEN "open" ELSE "mktmp"]
    /\ clearExc' = "none"
    /\ UNCHANGED <<envVars, calls, tmpDir, link, marker, lockPath, lockVars,
                   wrkVars, dump, elapsed, exc, outcome, histVars>>

\* tmp_checkpoint_dir.mkdir(parents=True, exist_ok=True)
MkdirTmp(p) ==
    /\ pc[p] = "mktmp"
    /\ tmpDir' = TRUE
    /\ pc' = [pc EXCEPT ![p] = "linktest"]
    /\ clearExc' = "none"
    /\ UNCHANGED <<envVars, calls, baseDir, link, marker, lockPath, lockVars,
                   wrkVars, dump, elapsed, exc, outcome, histVars>>

\* if not symlink_path.exists():
SymlinkTest(p) ==
    /\ pc[p] = "linktest"
    /\ pc' = [pc EXCEPT ![p] = IF SymlinkExists THEN "open" ELSE "linkcreate"]
    /\ clearExc' = "none"
    /\ UNCHANGED <<envVars, calls, fsVars, lockVars, wrkVars, dump, elapsed,
                   exc, outcome, histVars>>

\* symlink_path.symlink_to(tmp_checkpoint_dir): FileNotFoundError without the
\* directory, FileExistsError when the name is taken; neither is caught
SymlinkCreate(p) ==
    /\ pc[p] = "linkcreate"
    /\ IF ~baseDir
         THEN EnterFinally(p, "FileNotFoundError") /\ UNCHANGED link
         ELSE IF link
           THEN EnterFinally(p, "FileExistsError") /\ UNCHANGED link
           ELSE /\ link' = TRUE
                /\ pc' = [pc EXCEPT ![p] = "open"]
                /\ UNCHANGED <<exc, outcome>>
    /\ clearExc' = "none"
    /\ UNCHANGED <<envVars, calls, baseDir, tmpDir, marker, lockPath, lockVars,
                   wrkVars, dump, elapsed, histVars>>

\* ------------------------------------------------------------ lock acquisition

\* the exception os.open raises when the directory of the lock file is gone:
\* raw in ckpt_execvp.py and in ckpt_fixed_r1.py (whose except clause names
\* PermissionError and BlockingIOError), turned into the busy RuntimeError by
\* the "except (PermissionError, IOError)" of the other variants
OpenError ==
    IF variant \in {"execvp", "r1"} THEN "FileNotFoundError" ELSE "Busy"

\* lock_fd = os.open(lock_file, os.O_CREAT | os.O_RDWR)
OpenLock(p) ==
    /\ pc[p] = "open"
    /\ IF ~baseDir
         THEN /\ EnterFinally(p, OpenError)
              /\ UNCHANGED <<lockPath, lockVars>>
         ELSE /\ LET i == IF lockPath = 0 THEN FreshInode ELSE lockPath IN
                  /\ lockPath' = i
                  /\ ofdInode' = [ofdInode EXCEPT ![p] = i]
              /\ lockFd' = [lockFd EXCEPT ![p] = "open"]
              /\ pc' = [pc EXCEPT ![p] = "flock"]
              /\ UNCHANGED <<wfd, ofdLocked, exc, outcome>>
    /\ clearExc' = "none"
    /\ UNCHANGED <<envVars, calls, baseDir, tmpDir, link, marker, wrkVars, dump,
                   elapsed, histVars>>

\* fcntl.flock(lock_fd, fcntl.LOCK_EX | fcntl.LOCK_NB) is granted
FlockGranted(p) == ~LockedByOther(p)

\* the flock attempt.  Refused, ckpt_execvp.py lets BlockingIOError reach its
\* finally clause with lock_fd set; the variants close the descriptor in the
\* except clause, leave lock_fd set and raise the busy RuntimeError
Flock(p) ==
    /\ pc[p] = "flock"
    /\ flockRes' = [flockRes EXCEPT ![p] = IF FlockGranted(p) THEN "granted" ELSE "refused"]
    /\ IF FlockGranted(p)
         THEN /\ ofdLocked' = [ofdLocked EXCEPT ![p] = TRUE]
              /\ pc' = [pc EXCEPT ![p] = "check"]
              /\ UNCHANGED <<lockFd, wfd, ofdInode, exc>>
         ELSE IF variant = "execvp"
           THEN /\ exc' = [exc EXCEPT ![p] = "BlockingIOError"]
                /\ pc' = [pc EXCEPT ![p] = "unlock"]
                /\ UNCHANGED lockVars
           ELSE /\ exc' = [exc EXCEPT ![p] = "Busy"]
                /\ pc' = [pc EXCEPT ![p] = "unlock"]
                /\ DropCtrlFd(p)
    /\ clearExc' = "none"
    /\ UNCHANGED <<envVars, calls, fsVars, wrkVars, dump, elapsed, outcome, path,
                   markerAtStart, markerAtCheck, sawStop, dumpOkEver,
                   clearedSince>>

\* the marker check looking at a file that is never there, so that every call
\* takes the fork path
TakesRestore_Never == FALSE

\* if (tmp_checkpoint_dir / "checkpoint.exists").exists():
TakesRestore == MarkerExists

\* the branch on the marker, made with the lock held
CheckMarker(p) ==
    /\ pc[p] = "check"
    /\ path' = [path EXCEPT ![p] = IF TakesRestore THEN "restore" ELSE "fork"]
    /\ pc' = [pc EXCEPT ![p] = IF TakesRestore THEN "restore" ELSE "fork"]
    /\ markerAtCheck' = [markerAtCheck EXCEPT ![p] = MarkerExists]
    /\ clearExc' = "none"
    /\ UNCHANGED <<envVars, calls, fsVars, lockVars, wrkVars, dump, elapsed, exc,
                   outcome, flockRes, markerAtStart, sawStop, dumpOkEver,
                   clearedSince>>

\* ------------------------------------------------------------ the restore path

\* a failed exec falling back to the fork path instead of raising
RestoreExecFailed_Fallback(p) ==
    /\ pc' = [pc EXCEPT ![p] = "fork"]
    /\ UNCHANGED <<exc, outcome>>

\* except OSError: raise RuntimeError("Checkpoint restore failed")
RestoreExecFailed(p) == EnterFinally(p, "RestoreFailed")

\* the restore tool is started.  ckpt_execvp.py replaces the process image
\* (os.execvp): the descriptor made by os.open is close-on-exec, so the exec
\* closes it; when the exec itself fails, OSError becomes the restore
\* RuntimeError.  The variants run the tool as a child (subprocess) and wait.
StartRestore(p) ==
    /\ pc[p] = "restore"
    /\ IF variant = "execvp"
         THEN \E execOk \in BOOLEAN :
                IF execOk
                  THEN /\ pc' = [pc EXCEPT ![p] = "exec"]
                       /\ DropCtrlFd(p)
                       /\ UNCHANGED <<exc, outcome>>
                  ELSE /\ RestoreExecFailed(p)
                       /\ UNCHANGED lockVars
         ELSE /\ pc' = [pc EXCEPT ![p] = "restoring"]
              /\ UNCHANGED <<lockVars, exc, outcome>>
    /\ clearExc' = "none"
    /\ UNCHANGED <<envVars, calls, fsVars, wrkVars, dump, elapsed, histVars>>

\* the restore tool ends, with status zero (ok) or not
RestoreEnds(p) ==
    /\ pc[p] \in {"exec", "restoring"}
    /\ \E ok \in BOOLEAN :
         IF variant = "execvp"
           THEN /\ pc' = [pc EXCEPT ![p] = "done"]
                /\ outcome' = [outcome EXCEPT ![p] = IF ok THEN "restored" ELSE "toolfailed"]
                /\ UNCHANGED <<exc, ranBlock>>
           ELSE IF variant \in {"early", "cryo"}
             THEN /\ EnterFinally(p, IF ok THEN "none" ELSE "RestoreFailed")
                  /\ UNCHANGED ranBlock
             ELSE /\ pc' = [pc EXCEPT ![p] = IF ok THEN "body" ELSE "clear"]
                  /\ ranBlock' = [ranBlock EXCEPT ![p] = IF ok THEN "caller" ELSE @]
                  /\ UNCHANGED <<exc, outcome>>
    /\ clearExc' = "none"
    /\ UNCHANGED <<envVars, calls, fsVars, lockVars, w, wexit, wexc, dump,
                   elapsed, histVars>>

\* ckpt_fixed_claude.py and ckpt_fixed_o1_attempt_1.py, restore failed:
\* clear_checkpoints(context), then the restore RuntimeError.  The context is
\* the caller's: None (everything goes, unless a removal raises, and then
\* that exception is the one in flight) or a dict (this identity's record)
ClearOnRestoreFailure(p) ==
    /\ pc[p] = "clear"
    /\ \E all \in BOOLEAN :
         IF all
           THEN \E fail \in ClearEntries \cup {"none"} :
                  /\ ClearAllFs(fail)
                  /\ EnterFinally(p, IF fail = "none" THEN "RestoreFailed"
                                                      ELSE "ClearFailed")
           ELSE /\ ClearContextFs /\ UNCHANGED other
                /\ EnterFinally(p, "RestoreFailed")
    /\ ClearSeen
    /\ clearExc' = "none"
    /\ UNCHANGED <<variant, kills, idVars, mstate, clears, calls, lockVars, wrkVars,
                   dump, elapsed, path,
                   flockRes, markerAtStart, markerAtCheck, sawStop, dumpOkEver>>

\* ckpt_fixed_claude.py and ckpt_fixed_o1_attempt_1.py, restore succeeded: the
\* generator yields, so the caller's block runs in the calling process; it
\* returns (the generator returns) or raises (thrown in at the yield)
BodyEnds(p) ==
    /\ pc[p] = "body"
    /\ \E ok \in BOOLEAN : EnterFinally(p, IF ok THEN "none" ELSE "BlockError")
    /\ clearExc' = "none"
    /\ UNCHANGED <<envVars, calls, fsVars, lockVars, wrkVars, dump, elapsed, histVars>>

\* ---------------------------------------------------------------- the worker

\* pid = os.fork(): the worker inherits the lock descriptor; the controller
\* reads start_time and enters the wait
Fork(p) ==
    /\ pc[p] = "fork"
    /\ w' = [w EXCEPT ![p] = "start"]
    /\ wfd' = [wfd EXCEPT ![p] = TRUE]
    /\ elapsed' = [elapsed EXCEPT ![p] = 0]
    /\ pc' = [pc EXCEPT ![p] = "wait"]
    /\ clearExc' = "none"
    /\ UNCHANGED <<envVars, calls, fsVars, lockFd, ofdInode, ofdLocked, wexit,
                   wexc, ranBlock, dump, exc, outcome, histVars>>

\* the worker closes the descriptor it inherited before the block
\* ("if lock_fd is not None: os.close(lock_fd)"); ckpt_execvp.py does not
WorkerClosesFd == variant # "execvp"

\* the worker's first step: close the inherited descriptor, begin the block
WorkerBegin(p) ==
    /\ w[p] = "start"
    /\ w' = [w EXCEPT ![p] = "block"]
    /\ ranBlock' = [ranBlock EXCEPT ![p] = "worker"]
    /\ IF WorkerClosesFd THEN DropWrkFd(p) ELSE UNCHANGED lockVars
    /\ clearExc' = "none"
    /\ UNCHANGED <<envVars, calls, fsVars, pc, wexit, wexc, dump, elapsed, exc,
                   outcome, histVars>>

\* the block returns: os.kill(os.getpid(), signal.SIGSTOP)
BlockReturns(p) ==
    /\ w[p] = "block"
    /\ w' = [w EXCEPT ![p] = "stopped"]
    /\ clearExc' = "none"
    /\ UNCHANGED <<envVars, calls, fsVars, pc, lockVars, wexit, wexc, ranBlock,
                   dump, elapsed, exc, outcome, histVars>>

\* the status the worker exits with when the block raises: os._exit(0) in the
\* finally of ckpt_execvp.py, os._exit(1) in the except of the variants
CrashStatus == IF variant = "execvp" THEN 0 ELSE 1

\* the block raises: the worker exits without stopping
BlockRaises(p) ==
    /\ w[p] = "block"
    /\ w' = [w EXCEPT ![p] = "zombie"]
    /\ wexit' = [wexit EXCEPT ![p] = CrashStatus]
    /\ DropWrkFd(p)
    /\ clearExc' = "none"
    /\ UNCHANGED <<envVars, calls, fsVars, pc, wexc, ranBlock, dump, elapsed,
                   exc, outcome, histVars>>

\* the worker runs again after SIGCONT.  ckpt_execvp.py: the finally clause
\* calls os._exit(0).  The variants: control reaches the outer finally clause
\* with lock_fd set and its descriptor closed.  fcntl.flock raises OSError
\* (EBADF) and the worker leaves checkpoint() with it; unless the block has
\* opened a file that got the descriptor's number (reused), and then the
\* unlock and the close act on that file, lock_file.unlink() removes the lock
\* file and the worker leaves without an exception
WorkerResumes(p) ==
    /\ w[p] = "resumed"
    /\ IF variant = "execvp"
         THEN /\ w' = [w EXCEPT ![p] = "zombie"]
              /\ wexit' = [wexit EXCEPT ![p] = 0]
              /\ DropWrkFd(p)
              /\ UNCHANGED <<wexc, lockPath>>
         ELSE /\ w' = [w EXCEPT ![p] = "left"]
              /\ \E reused \in BOOLEAN :
                   IF reused
                     THEN lockPath' = 0 /\ UNCHANGED wexc
                     ELSE /\ wexc' = [wexc EXCEPT ![p] = "EBADF"]
                          /\ UNCHANGED lockPath
              /\ UNCHANGED <<wexit, lockVars>>
    /\ clearExc' = "none"
    /\ UNCHANGED <<envVars, calls, baseDir, tmpDir, link, marker, pc, ranBlock,
                   dump, elapsed, exc, outcome, histVars>>

\* the worker, now the program after the with statement, ends
WorkerProgramEnds(p) ==
    /\ w[p] = "left"
    /\ \E st \in {0, 1} :
         /\ w' = [w EXCEPT ![p] = "zombie"]
         /\ wexit' = [wexit EXCEPT ![p] = st]
    /\ wexc' = [wexc EXCEPT ![p] = "none"]
    /\ DropWrkFd(p)
    /\ clearExc' = "none"
    /\ UNCHANGED <<envVars, calls, fsVars, pc, ranBlock, dump, elapsed, exc,
                   outcome, histVars>>

\* ------------------------------------------------------- the controller's wait

\* os.waitpid(pid, os.WUNTRACED) has something to return: it blocks until the
\* worker has stopped or exited, and raises at once when there is no child
\* left to wait for
WaitPidReturns(p) == w[p] \in {"stopped", "zombie", "reaped"}

\* the wait taking any return of waitpid for the stop notification
StopObserved_Any(p) == TRUE

\* os.WIFSTOPPED(status)
StopObserved(p) == w[p] = "stopped"

\* if time.time() - start_time > 5:
TimedOut(p) == elapsed[p] > Timeout

\* one return of waitpid in the wait for the stop notification.
\*   stopped: on to the dump;
\*   exited: the status is reaped; ckpt_execvp.py loops, the timed loop checks
\*     the clock and loops, ckpt_fixed_claude.py raises;
\*   no child: ChildProcessError, which "except ProcessLookupError" does not
\*     catch.
WaitPid(p) ==
    /\ pc[p] = "wait"
    /\ WaitPidReturns(p)
    /\ IF StopObserved(p)
         THEN /\ sawStop' = [sawStop EXCEPT ![p] = TRUE]
              /\ pc' = [pc EXCEPT ![p] = "dump"]
              /\ UNCHANGED <<w, exc, outcome>>
         ELSE IF w[p] = "zombie"
           THEN /\ w' = [w EXCEPT ![p] = "reaped"]
                /\ IF variant = "claude"
                     THEN /\ exc' = [exc EXCEPT ![p] = "ChildExited"]
                          /\ pc' = [pc EXCEPT ![p] = "kill"]
                     ELSE IF variant \in LoopVariants /\ TimedOut(p)
                       THEN /\ exc' = [exc EXCEPT ![p] = "Timeout"]
                            /\ pc' = [pc EXCEPT ![p] = "kill"]
                       ELSE UNCHANGED <<exc, pc>>
                /\ UNCHANGED <<sawStop, outcome>>
           ELSE /\ IF variant = "execvp"
                     THEN EnterFinally(p, "ChildProcessError")
                     ELSE /\ exc' = [exc EXCEPT ![p] = "ChildProcessError"]
                          /\ pc' = [pc EXCEPT ![p] = "kill"]
                          /\ UNCHANGED outcome
                /\ UNCHANGED <<w, sawStop>>
    /\ elapsed' = [elapsed EXCEPT ![p] = IF pc'[p] = "wait" THEN @ ELSE 0]
    /\ clearExc' = "none"
    /\ UNCHANGED <<envVars, calls, fsVars, lockVars, wexit, wexc, ranBlock,
                   dump, path, flockRes, markerAtStart, markerAtCheck,
                   dumpOkEver, clearedSince>>

\* a second passes while the controller is in the timed wait loop, blocked in
\* waitpid
Tick(p) ==
    /\ pc[p] = "wait"
    /\ ~WaitPidReturns(p)
    /\ variant \in LoopVariants
    /\ elapsed[p] < MaxElapsed
    /\ elapsed' = [elapsed EXCEPT ![p] = @ + 1]
    /\ clearExc' = "none"
    /\ UNCHANGED <<envVars, calls, fsVars, pc, lockVars, wrkVars, dump, exc,
                   outcome, histVars>>

\* ------------------------------------------------------------------- the dump

\* subprocess.run(["sudo", "criu", "dump", "-t", str(pid), ...]) starts
StartDump(p) ==
    /\ pc[p] = "dump"
    /\ dump' = [dump EXCEPT ![p] = "running"]
    /\ pc' = [pc EXCEPT ![p] = "dumping"]
    /\ clearExc' = "none"
    /\ UNCHANGED <<envVars, calls, fsVars, lockVars, wrkVars, elapsed, exc,
                   outcome, histVars>>

\* where a failure after the fork goes: ckpt_execvp.py has no handler, so
\* straight to the finally clause; the variants kill the worker first
AfterForkFailure(p, e) ==
    IF variant = "execvp"
      THEN EnterFinally(p, e)
      ELSE /\ exc' = [exc EXCEPT ![p] = e]
           /\ pc' = [pc EXCEPT ![p] = "kill"]
           /\ UNCHANGED outcome

\* what follows the dump tool's success: the marker, except in
\* ckpt_fixed_o1_attempt_1.py, which sends SIGCONT first
AfterDumpOk == IF variant = "o1" THEN "cont" ELSE "touch"

\* the dump tool ends; it can succeed only with its target directory in place
DumpEnds(p) ==
    /\ pc[p] = "dumping"
    /\ \E ok \in BOOLEAN :
         /\ ok => MarkerDirExists
         /\ IF ok
              THEN /\ dump' = [dump EXCEPT ![p] = "ok"]
                   /\ dumpOkEver' = TRUE
                   /\ pc' = [pc EXCEPT ![p] = AfterDumpOk]
                   /\ UNCHANGED <<exc, outcome>>
              ELSE /\ dump' = [dump EXCEPT ![p] = "failed"]
                   /\ AfterForkFailure(p, "DumpFailed")
                   /\ UNCHANGED dumpOkEver
    /\ clearExc' = "none"
    /\ UNCHANGED <<envVars, calls, fsVars, lockVars, wrkVars, elapsed, path,
                   flockRes, markerAtStart, markerAtCheck, sawStop, clearedSince>>

\* what follows the marker: SIGCONT in ckpt_execvp.py and ckpt_fixed_claude.py,
\* the controller's os._exit(0) in the others
AfterTouch == IF variant \in {"execvp", "claude"} THEN "cont" ELSE "osexit"

\* (tmp_checkpoint_dir / "checkpoint.exists").touch()
Touch(p) ==
    /\ pc[p] = "touch"
    /\ IF MarkerDirExists
         THEN /\ marker' = TRUE
              /\ pc' = [pc EXCEPT ![p] = AfterTouch]
              /\ UNCHANGED <<exc, outcome>>
         ELSE /\ AfterForkFailure(p, "FileNotFoundError")
              /\ UNCHANGED marker
    /\ clearExc' = "none"
    /\ UNCHANGED <<envVars, calls, baseDir, tmpDir, link, lockPath, lockVars,
                   wrkVars, dump, elapsed, histVars>>

\* what follows SIGCONT: the marker in ckpt_fixed_o1_attempt_1.py, the wait for
\* the worker's exit in ckpt_execvp.py and ckpt_fixed_claude.py
AfterCont == IF variant = "o1" THEN "touch" ELSE "waitexit"

\* os.kill(pid, signal.SIGCONT)
SigCont(p) ==
    /\ pc[p] = "cont"
    /\ w' = [w EXCEPT ![p] = IF @ = "stopped" THEN "resumed" ELSE @]
    /\ pc' = [pc EXCEPT ![p] = AfterCont]
    /\ clearExc' = "none"
    /\ UNCHANGED <<envVars, calls, fsVars, lockVars, wexit, wexc, ranBlock,
                   dump, elapsed, exc, outcome, histVars>>

\* os.waitpid(pid, 0): blocks until the worker has exited.  ckpt_execvp.py
\* goes on to the finally clause; ckpt_fixed_claude.py raises on a status
\* that is not zero, and returns otherwise
WaitExit(p) ==
    /\ pc[p] = "waitexit"
    /\ w[p] = "zombie"
    /\ w' = [w EXCEPT ![p] = "reaped"]
    /\ IF variant = "claude" /\ wexit[p] # 0
         THEN /\ exc' = [exc EXCEPT ![p] = "ChildFailed"]
              /\ pc' = [pc EXCEPT ![p] = "kill"]
              /\ UNCHANGED outcome
         ELSE EnterFinally(p, "none")
    /\ clearExc' = "none"
    /\ UNCHANGED <<envVars, calls, fsVars, lockVars, wexit, wexc, ranBlock,
                   dump, elapsed, histVars>>

\* the failure handler of the variants: os.kill(pid, signal.SIGKILL), with
\* ProcessLookupError passed over; then ckpt_fixed_claude.py raises
\* RuntimeError("Checkpoint failed: ...") and the others re-raise into
\* "finally: os._exit(0)"
Kill(p) ==
    /\ pc[p] = "kill"
    /\ IF WorkerAlive(p)
         THEN /\ w' = [w EXCEPT ![p] = "zombie"]
              /\ wexit' = [wexit EXCEPT ![p] = 9]
              /\ DropWrkFd(p)
         ELSE UNCHANGED <<w, wexit, lockVars>>
    /\ IF variant = "claude"
         THEN EnterFinally(p, "CheckpointFailed")
         ELSE /\ pc' = [pc EXCEPT ![p] = "osexit"]
              /\ UNCHANGED <<exc, outcome>>
    /\ clearExc' = "none"
    /\ UNCHANGED <<envVars, calls, fsVars, wexc, ranBlock, dump, elapsed,
                   histVars>>

\* "finally: os._exit(0)": the controller exits with status 0, whatever
\* exception was in flight; the outer finally clause never runs
OsExit(p) ==
    /\ pc[p] = "osexit"
    /\ pc' = [pc EXCEPT ![p] = "done"]
    /\ outcome' = [outcome EXCEPT ![p] = "exit0"]
    /\ DropCtrlFd(p)
    /\ clearExc' = "none"
    /\ UNCHANGED <<envVars, calls, fsVars, wrkVars, dump, elapsed, exc, histVars>>

\* --------------------------------------------------------- the finally clause

\* fcntl.flock(lock_fd, fcntl.LOCK_UN); on a descriptor that was closed it
\* raises OSError (EBADF), which replaces the exception in flight
Unlock(p) ==
    /\ pc[p] = "unlock"
    /\ IF lockFd[p] = "closed"
         THEN /\ exc' = [exc EXCEPT ![p] = "EBADF"]
              /\ pc' = [pc EXCEPT ![p] = "done"]
              /\ outcome' = [outcome EXCEPT ![p] = "raised"]
              /\ UNCHANGED ofdLocked
         ELSE /\ ofdLocked' = [ofdLocked EXCEPT ![p] = FALSE]
              /\ pc' = [pc EXCEPT ![p] = "close"]
              /\ UNCHANGED <<exc, outcome>>
    /\ clearExc' = "none"
    /\ UNCHANGED <<envVars, calls, fsVars, lockFd, wfd, ofdInode, wrkVars, dump,
                   elapsed, histVars>>

\* os.close(lock_fd)
Close(p) ==
    /\ pc[p] = "close"
    /\ DropCtrlFd(p)
    /\ pc' = [pc EXCEPT ![p] = "unlink"]
    /\ clearExc' = "none"
    /\ UNCHANGED <<envVars, calls, fsVars, wrkVars, dump, elapsed, exc, outcome,
                   histVars>>

\* what the with statement raises once the generator has finished: the
\* exception in flight; or, the generator having returned without ever
\* yielding in this process, contextlib's RuntimeError("generator didn't yield")
FinalExc(p) ==
    IF exc[p] = "none" /\ ranBlock[p] # "caller" THEN "DidntYield" ELSE exc[p]

\* lock_file.unlink(missing_ok=True): whatever file the path names now
Unlink(p) ==
    /\ pc[p] = "unlink"
    /\ lockPath' = 0
    /\ pc' = [pc EXCEPT ![p] = "done"]
    /\ exc' = [exc EXCEPT ![p] = FinalExc(p)]
    /\ outcome' = [outcome EXCEPT ![p] = IF FinalExc(p) = "none" THEN "returned" ELSE "raised"]
    /\ clearExc' = "none"
    /\ UNCHANGED <<envVars, calls, baseDir, tmpDir, link, marker, lockVars,
                   wrkVars, dump, elapsed, histVars>>

\* ------------------------------------------------------------ the environment

\* the calling process is terminated from outside (SIGKILL) inside the call: no
\* handler and no finally clause runs, its descriptors are closed
Terminate(p) ==
    /\ Operations < MaxCalls
    /\ kills' = kills + 1
    /\ pc[p] \notin {"idle", "done", "exec"}
    /\ pc' = [pc EXCEPT ![p] = "done"]
    /\ outcome' = [outcome EXCEPT ![p] = "killed"]
    /\ elapsed' = [elapsed EXCEPT ![p] = 0]
    /\ DropCtrlFd(p)
    /\ clearExc' = "none"
    /\ UNCHANGED <<variant, other, clears, idVars, mstate, calls, fsVars, wrkVars, dump,
                   exc, histVars>>

\* clear_checkpoints(context) for this identity, called by a process that is
\* not inside checkpoint()
ClearContext ==
    /\ clears < MaxClears /\ Operations < MaxCalls
    /\ clears' = clears + 1
    /\ ClearContextFs
    /\ clearExc' = "none"
    /\ ClearSeen
    /\ UNCHANGED <<variant, kills, idVars, mstate, other, calls, pc, lockVars, wrkVars,
                   dump, elapsed,
                   exc, outcome, path, flockRes, markerAtStart, markerAtCheck,
                   sawStop, dumpOkEver>>

\* clear_checkpoints() without context, called by a process that is not inside
\* checkpoint(); no removal is guarded, so the first one that raises ends the
\* call
ClearAll ==
    /\ clears < MaxClears /\ Operations < MaxCalls
    /\ clears' = clears + 1
    /\ \E fail \in ClearEntries \cup {"none"} :
         /\ ClearAllFs(fail)
         /\ clearExc' = fail
    /\ ClearSeen
    /\ UNCHANGED <<variant, kills, idVars, mstate, calls, pc, lockVars, wrkVars, dump,
                   elapsed, exc, outcome, path, flockRes, markerAtStart, markerAtCheck,
                   sawStop, dumpOkEver>>

\* checkpoint() is called for another identity: its directories are made
OtherIdentityCall ==
    /\ Operations < MaxCalls
    /\ calls' = calls + 1
    /\ ~other
    /\ other' = TRUE
    /\ clearExc' = "none"
    /\ UNCHANGED <<variant, kills, idVars, mstate, clears, fsVars, pc, lockVars, wrkVars,
                   dump, elapsed, exc, outcome, histVars>>

\* ---------------------------------------------------------------- the system

Next ==
    \/ ClearAll \/ ClearContext \/ OtherIdentityCall
    \/ \E p \in Procs :
        \/ Call(p) \/ MkdirBase(p) \/ MkdirTmp(p) \/ SymlinkTest(p)
        \/ SymlinkCreate(p) \/ OpenLock(p) \/ Flock(p) \/ CheckMarker(p)
        \/ StartRestore(p) \/ RestoreEnds(p) \/ ClearOnRestoreFailure(p)
        \/ BodyEnds(p) \/ Fork(p) \/ WorkerBegin(p) \/ BlockReturns(p)
        \/ BlockRaises(p) \/ WorkerResumes(p) \/ WorkerProgramEnds(p)
        \/ WaitPid(p) \/ Tick(p) \/ StartDump(p) \/ DumpEnds(p) \/ Touch(p)
        \/ SigCont(p) \/ WaitExit(p) \/ Kill(p) \/ OsExit(p) \/ Unlock(p)
        \/ Close(p) \/ Unlink(p) \/ Terminate(p)

Spec == Init /\ [][Next]_vars

\* ------------------------------------------- the identity, called twice

\* the variables of the protocol
protocolVars == <<variant, calls, fsVars, pc, lockVars, wrkVars, dump, elapsed,
                  exc, outcome, histVars, other, clears, kills, clearExc,
                  mstate>>

\* two calls are to be made, under one environment
InitId ==
    /\ ProtocolInit /\ variant = "execvp"
    /\ ctxA \in ContextArgs /\ ctxB \in ContextArgs
    /\ environ \in Environments
    /\ recA = <<>> /\ recB = <<>>
    /\ idA = -1 /\ idB = -1

\* the first call of _generate_checkpoint_id
GenerateA ==
    /\ idA = -1
    /\ recA' = CheckpointContext(ctxA, environ)
    /\ idA' = GenerateCheckpointId(ctxA, environ)
    /\ UNCHANGED <<protocolVars, ctxA, ctxB, environ, recB, idB>>

\* the second call
GenerateB ==
    /\ idB = -1
    /\ recB' = CheckpointContext(ctxB, environ)
    /\ idB' = GenerateCheckpointId(ctxB, environ)
    /\ UNCHANGED <<protocolVars, ctxA, ctxB, environ, recA, idA>>

NextId == GenerateA \/ GenerateB

SpecId == InitId /\ [][NextId]_vars

\* ------------------------------------- the helper variant, ckpt_fixed_r1.py

\* who forked whom: the calling process ("main") forks the helper
ParentOf == [helper |-> "main", main |-> "shell"]

\* os.waitpid(pid, ...) waits for a child of the caller only; for any other
\* process it raises ChildProcessError (ECHILD) at once
CanWaitFor(caller, target) == ParentOf[target] = caller

\* main_pid = os.getppid(): the process the helper waits for and dumps
MainPid == ParentOf["helper"]

\* os.execvp of the restore tool.  The image is replaced (the close-on-exec
\* lock descriptor goes); or the exec fails, and "except Exception" goes on
\* to clear_checkpoints(context) and the restore RuntimeError
ExecRestore(p) ==
    /\ pc[p] = "restore"
    /\ \E execOk \in BOOLEAN :
         IF execOk
           THEN /\ pc' = [pc EXCEPT ![p] = "exec"]
                /\ DropCtrlFd(p)
           ELSE /\ pc' = [pc EXCEPT ![p] = "clear"]
                /\ UNCHANGED lockVars
    /\ clearExc' = "none"
    /\ UNCHANGED <<envVars, calls, fsVars, wrkVars, dump, elapsed, exc, outcome,
                   histVars>>

\* the restore tool, which replaced the calling process, ends
RestoreToolEnds(p) ==
    /\ pc[p] = "exec"
    /\ pc' = [pc EXCEPT ![p] = "done"]
    /\ \E ok \in BOOLEAN :
         outcome' = [outcome EXCEPT ![p] = IF ok THEN "restored" ELSE "toolfailed"]
    /\ clearExc' = "none"
    /\ UNCHANGED <<envVars, calls, fsVars, lockVars, wrkVars, dump, elapsed, exc,
                   histVars>>

\* helper_pid = os.fork(): the helper inherits the lock descriptor; the
\* calling process goes to the yield, and the block runs in it
ForkHelper(p) ==
    /\ pc[p] = "fork"
    /\ w' = [w EXCEPT ![p] = "start"]
    /\ wfd' = [wfd EXCEPT ![p] = TRUE]
    /\ pc' = [pc EXCEPT ![p] = "body"]
    /\ ranBlock' = [ranBlock EXCEPT ![p] = "caller"]
    /\ clearExc' = "none"
    /\ UNCHANGED <<envVars, calls, fsVars, lockFd, ofdInode, ofdLocked, wexit,
                   wexc, dump, elapsed, exc, outcome, histVars>>

\* the block ends in the calling process: it returns, and the generator goes
\* on to the SIGSTOP; or it raises, which "except Exception" re-raises
MainBlockEnds(p) ==
    /\ pc[p] = "body"
    /\ \E ok \in BOOLEAN :
         IF ok
           THEN /\ pc' = [pc EXCEPT ![p] = "selfstop"]
                /\ UNCHANGED <<exc, outcome>>
           ELSE EnterFinally(p, "BlockError")
    /\ clearExc' = "none"
    /\ UNCHANGED <<envVars, calls, fsVars, lockVars, wrkVars, dump, elapsed,
                   histVars>>

\* os.kill(os.getpid(), signal.SIGSTOP): the calling process is stopped, its
\* next statement being the wait for the helper
MainStops(p) ==
    /\ pc[p] = "selfstop"
    /\ mstate' = [mstate EXCEPT ![p] = "stopped"]
    /\ pc' = [pc EXCEPT ![p] = "waithelper"]
    /\ clearExc' = "none"
    /\ UNCHANGED <<variant, other, clears, kills, idVars, calls, fsVars,
                   lockVars, wrkVars, dump, elapsed, exc, outcome, histVars>>

\* os.waitpid(helper_pid, 0), which a stopped process does not execute: it
\* returns once the helper has exited, and the generator ends
MainWaitsHelper(p) ==
    /\ pc[p] = "waithelper" /\ mstate[p] = "running"
    /\ w[p] = "zombie"
    /\ w' = [w EXCEPT ![p] = "reaped"]
    /\ EnterFinally(p, "none")
    /\ clearExc' = "none"
    /\ UNCHANGED <<envVars, calls, fsVars, lockVars, wexit, wexc, ranBlock,
                   dump, elapsed, histVars>>

\* the helper's try block, one statement at a time.
\*   os.waitpid(main_pid, os.WUNTRACED): main_pid is the helper's parent, so
\*     the call raises ChildProcessError, and control goes to the finally
\*     clause; for a child it would return at the child's stop (or exit);
\*   subprocess.run([... "dump" ...], check=True): CalledProcessError goes to
\*     the finally clause;
\*   (tmp_checkpoint_dir / "checkpoint.exists").touch();
\*   os.kill(main_pid, signal.SIGCONT).
HelperTry(p) ==
    /\ w[p] \in {"start", "hdump", "htouch", "hcont"}
    /\ CASE w[p] = "start" ->
             /\ IF ~CanWaitFor("helper", MainPid)
                  THEN w' = [w EXCEPT ![p] = "hexit"]
                  ELSE /\ mstate[p] = "stopped" \/ pc[p] = "done"
                       /\ w' = [w EXCEPT ![p] = IF mstate[p] = "stopped"
                                                  THEN "hdump" ELSE "hexit"]
             /\ sawStop' = [sawStop EXCEPT ![p] =
                              CanWaitFor("helper", MainPid) /\ mstate[p] = "stopped"]
             /\ UNCHANGED <<marker, mstate, dump, dumpOkEver>>
         [] w[p] = "hdump" ->
             /\ \E ok \in BOOLEAN :
                  /\ ok => MarkerDirExists
                  /\ dump' = [dump EXCEPT ![p] = IF ok THEN "ok" ELSE "failed"]
                  /\ dumpOkEver' = (dumpOkEver \/ ok)
                  /\ w' = [w EXCEPT ![p] = IF ok THEN "htouch" ELSE "hexit"]
             /\ UNCHANGED <<marker, mstate, sawStop>>
         [] w[p] = "htouch" ->
             /\ IF MarkerDirExists
                  THEN /\ marker' = TRUE
                       /\ w' = [w EXCEPT ![p] = "hcont"]
                  ELSE /\ w' = [w EXCEPT ![p] = "hexit"]
                       /\ UNCHANGED marker
             /\ UNCHANGED <<mstate, dump, dumpOkEver, sawStop>>
         [] w[p] = "hcont" ->
             /\ mstate' = [mstate EXCEPT ![p] = "running"]
             /\ w' = [w EXCEPT ![p] = "hexit"]
             /\ UNCHANGED <<marker, dump, dumpOkEver, sawStop>>
    /\ clearExc' = "none"
    /\ UNCHANGED <<variant, other, clears, kills, idVars, calls, baseDir,
                   tmpDir, link, lockPath, pc, lockVars, wexit, wexc, ranBlock,
                   elapsed, path, exc, outcome, flockRes, markerAtStart,
                   markerAtCheck, clearedSince>>

\* "finally: os._exit(0)": the helper exits with status 0 whatever happened
\* in its try block; its copy of the lock descriptor is closed
HelperExits(p) ==
    /\ w[p] = "hexit"
    /\ w' = [w EXCEPT ![p] = "zombie"]
    /\ wexit' = [wexit EXCEPT ![p] = 0]
    /\ DropWrkFd(p)
    /\ clearExc' = "none"
    /\ UNCHANGED <<envVars, calls, fsVars, pc, wexc, ranBlock, dump, elapsed,
                   exc, outcome, histVars>>

\* the record a run of ckpt_execvp.py, which uses the same paths, has left
SnapshotLeft ==
    /\ baseDir = TRUE /\ tmpDir = TRUE /\ link = TRUE /\ marker = TRUE
    /\ lockPath = 0

\* no call has been made, and every call will run ckpt_fixed_r1.py; the
\* identity has no record, or the record of an earlier run
InitR1 ==
    /\ IdIdle /\ variant = "r1" /\ SlotsIdle
    /\ NoRecord \/ SnapshotLeft

\* a SIGCONT from outside (the shell's fg, kill -CONT) to the stopped process
ContinuedFromOutside(p) ==
    /\ mstate[p] = "stopped"
    /\ mstate' = [mstate EXCEPT ![p] = "running"]
    /\ clearExc' = "none"
    /\ UNCHANGED <<variant, other, clears, kills, idVars, calls, fsVars, pc,
                   lockVars, wrkVars, dump, elapsed, exc, outcome, histVars>>

\* a step of the calling process of slot p inside checkpoint()
MainStep(p) ==
    \/ MkdirBase(p) \/ MkdirTmp(p) \/ SymlinkTest(p) \/ SymlinkCreate(p)
    \/ OpenLock(p) \/ Flock(p) \/ CheckMarker(p) \/ ExecRestore(p)
    \/ RestoreToolEnds(p) \/ ClearOnRestoreFailure(p) \/ ForkHelper(p)
    \/ MainBlockEnds(p) \/ MainStops(p) \/ MainWaitsHelper(p) \/ Unlock(p)
    \/ Close(p) \/ Unlink(p)

\* a step of the helper of slot p
HelperStep(p) == HelperTry(p) \/ HelperExits(p)

NextR1 ==
    \E p \in Procs :
        Call(p) \/ MainStep(p) \/ HelperStep(p) \/ ContinuedFromOutside(p)

\* every process that can take a step is scheduled in the end; calls and
\* signals from outside come when their senders please
FairR1 == \A p \in Procs : WF_vars(MainStep(p)) /\ WF_vars(HelperStep(p))

SpecR1 == InitR1 /\ [][NextR1]_vars /\ FairR1

\* ================================================================ the claims

\* the invocation in slot p has ended in the calling process
Ended(p) == pc[p] = "done"

\* C1: mutual exclusion in ckpt_execvp.py: at most one process at a time is
\* between its successful lock acquisition and its release.
C1_MutualExclusion ==
    variant = "execvp" =>
        \A p, q \in Procs : (HoldsLock(p) /\ HoldsLock(q)) => p = q

\* C2: marker safety in ckpt_execvp.py and ckpt_early.py: the marker is present
\* only if some dump-tool run has returned success; it is not present while
\* a controller's dump tool is still running, nor while a controller whose
\* dump tool failed still holds its lock.
C2_MarkerSafety ==
    variant \in {"execvp", "early"} =>
        /\ marker => dumpOkEver
        /\ \A p \in Procs :
              /\ pc[p] = "dumping" => ~marker
              /\ (dump[p] = "failed" /\ HoldsLock(p)) => ~marker

\* C3: dump ordering in ckpt_execvp.py and ckpt_fixed_claude.py: the dump tool is
\* invoked only after waitpid reported the worker stopped, the worker is
\* stopped for as long as the dump tool runs, and the worker runs again (the
\* continue signal was sent) only after the dump tool has returned.
C3_DumpOrdering ==
    variant \in {"execvp", "claude"} =>
        \A p \in Procs :
            /\ dump[p] # "none" => sawStop[p]
            /\ dump[p] = "running" => w[p] = "stopped"
            /\ (w[p] \in {"resumed", "left"} \/ pc[p] = "waitexit") => dump[p] = "ok"

\* C3 happens: a worker runs again after a dump that returned success
C3_Witness ==
    \E p \in Procs :
        variant = "claude" /\ sawStop[p] /\ dump[p] = "ok" /\ w[p] = "resumed"

\* C4: no orphaned worker in ckpt_execvp.py: when the dump tool has failed and
\* the failure has left checkpoint() in the controller, the worker no longer
\* exists.
C4_NoOrphanOnDumpFailure ==
    variant = "execvp" =>
        \A p \in Procs :
            (dump[p] = "failed" /\ Ended(p) /\ outcome[p] = "raised")
                => ~WorkerAlive(p)

\* C5: lock release on every exit path of ckpt_execvp.py and ckpt_early.py: once
\* the invocation has ended, however it ended (and once a worker it forked is
\* past its first step), no process holds the lock it acquired.
C5_LockReleasedOnExit ==
    variant \in {"execvp", "early"} =>
        \A p \in Procs : (Ended(p) /\ w[p] # "start") => ~ofdLocked[p]

\* C6: busy failure in ckpt_early.py and cryo/ckpt.py: a call whose flock was
\* refused goes no further than lock acquisition, and what it raises to its
\* caller is the busy RuntimeError.
C6_BusyFailure ==
    variant \in {"early", "cryo"} =>
        \A p \in Procs :
            flockRes[p] = "refused" =>
                /\ path[p] = "none" /\ w[p] = "none" /\ dump[p] = "none"
                /\ (Ended(p) /\ outcome[p] # "killed")
                      => (outcome[p] = "raised" /\ exc[p] = "Busy")

\* the restore path of ckpt_execvp.py was executed: the exec was attempted
RestoreRan(p) ==
    \/ pc[p] = "exec"
    \/ outcome[p] \in {"restored", "toolfailed"}
    \/ exc[p] = "RestoreFailed"

\* the fork/dump path was executed: the worker was forked
ForkRan(p) == w[p] # "none"

\* C7: at-most-once dump in ckpt_execvp.py: a call that begins when the marker
\* is there (written after a successful dump), and during which no clear
\* operation has run, forks no worker, runs no block,
\* invokes no dump tool, and, having acquired the lock and ended without being
\* terminated from outside, has executed the restore path.
C7_AtMostOnceDump ==
    variant = "execvp" =>
        \A p \in Procs :
            (markerAtStart[p] /\ ~clearedSince[p]) =>
                /\ dumpOkEver
                /\ path[p] # "fork" /\ ~ForkRan(p)
                /\ ranBlock[p] = "none" /\ dump[p] = "none"
                /\ (flockRes[p] = "granted" /\ Ended(p) /\ outcome[p] # "killed")
                      => RestoreRan(p)

\* C7 happens: a call that began with the marker present runs the restore tool
C7_Witness ==
    \E p \in Procs :
        variant = "execvp" /\ markerAtStart[p] /\ dumpOkEver /\ pc[p] = "exec"

\* C8: path selection in ckpt_execvp.py: an invocation that acquired the lock
\* executes the restore path or the fork/dump path, never both, and (unless
\* it is terminated from outside) never neither; it is the restore path
\* exactly when the marker was present at the check made under the lock.
C8_PathSelection ==
    variant = "execvp" =>
        \A p \in Procs :
            /\ ~(RestoreRan(p) /\ ForkRan(p))
            /\ (RestoreRan(p) \/ ForkRan(p)) => flockRes[p] = "granted"
            /\ RestoreRan(p) => markerAtCheck[p]
            /\ ForkRan(p) => ~markerAtCheck[p]
            /\ (flockRes[p] = "granted" /\ Ended(p) /\ outcome[p] # "killed")
                  => (RestoreRan(p) \/ ForkRan(p))

\* C8 happens: one invocation has ended on the fork/dump path and another on
\* the restore path
C8_Witness ==
    \E p, q \in Procs :
        /\ variant = "execvp"
        /\ Ended(p) /\ ForkRan(p) /\ outcome[p] = "raised"
        /\ Ended(q) /\ RestoreRan(q) /\ markerAtCheck[q]

\* C9: bounded wait in ckpt_early.py, cryo/ckpt.py and
\* ckpt_fixed_o1_attempt_1.py: while the worker is still in the block (it has
\* neither stopped nor exited), once more than the timeout has elapsed in the
\* wait for the stop notification the controller can leave the wait.
C9_BoundedWait ==
    variant \in LoopVariants =>
        \A p \in Procs :
            (pc[p] = "wait" /\ w[p] = "block" /\ elapsed[p] > Timeout)
                => ENABLED (WaitPid(p) /\ pc'[p] # "wait")

\* the worker of p exited because the block raised
Crashed(p) ==
    /\ w[p] \in {"zombie", "reaped"}
    /\ wexit[p] = CrashStatus
    /\ ~sawStop[p]

\* C10: worker crash in ckpt_early.py: when the block raises, the worker has
\* exited without stopping; once the invocation has ended no dump tool was
\* invoked, the lock is released, no worker remains, and the invocation
\* ended as a failure.
C10_WorkerCrash ==
    variant = "early" =>
        \A p \in Procs :
            (Crashed(p) /\ Ended(p) /\ outcome[p] # "killed") =>
                /\ dump[p] = "none"
                /\ ~ofdLocked[p]
                /\ ~WorkerAlive(p)
                /\ outcome[p] = "raised"

\* C11: single continuation in ckpt_execvp.py: the worker, once resumed after
\* the dump, goes on to the code that follows the checkpoint block (its next
\* step is to leave checkpoint()), and the controller of a fork/dump
\* invocation never returns into the code that follows the block.
C11_SingleContinuation ==
    /\ [](variant = "execvp" =>
            \A p \in Procs : ForkRan(p) => outcome[p] # "returned")
    /\ [][variant = "execvp" =>
            \A p \in Procs :
                (w[p] = "resumed" /\ w'[p] # "resumed") => w'[p] = "left"]_vars

\* C12: worker resumed after success in ckpt_early.py: once the dump tool has
\* succeeded and the controller has ended by itself, the worker is not left
\* alive in the stopped state.
C12_WorkerResumed ==
    variant = "early" =>
        \A p \in Procs :
            (dump[p] = "ok" /\ Ended(p) /\ outcome[p] # "killed")
                => w[p] # "stopped"

\* C13: marker before resume in ckpt_execvp.py, ckpt_fixed_claude.py and
\* ckpt_fixed_o1_attempt_1.py: whenever the worker is running again after the
\* dump, the controller is past the creation of the marker, and the marker is
\* present unless a clear operation has run since the call began.
C13_MarkerBeforeResume ==
    variant \in {"execvp", "claude", "o1"} =>
        \A p \in Procs :
            w[p] \in {"resumed", "left"} =>
                /\ pc[p] # "touch"
                /\ ~clearedSince[p] => MarkerExists

\* a failure has occurred on the fork/dump path of p, after the fork
FailedAfterFork(p) == ForkRan(p) /\ exc[p] # "none"

\* C14: dump-path failures are surfaced in ckpt_early.py and cryo/ckpt.py: an
\* invocation that failed after the fork and has ended by itself has no
\* worker left and has ended as a failure, not with a success status.
C14_FailuresSurfaced ==
    variant \in {"early", "cryo"} =>
        \A p \in Procs :
            (FailedAfterFork(p) /\ Ended(p) /\ outcome[p] # "killed") =>
                /\ ~WorkerAlive(p)
                /\ outcome[p] = "raised"

\* a step of p between the end of its restore tool and the raise
RestoreFailureStep(p) ==
    pc[p] \in {"restoring", "clear"} /\ pc'[p] # pc[p]

\* the step leaves the marker, the directories and the linkage as they are
SnapshotKept == UNCHANGED <<baseDir, tmpDir, link, marker>>

\* C15: restore failure does not discard the snapshot in ckpt_early.py,
\* ckpt_fixed_claude.py and ckpt_fixed_o1_attempt_1.py: an invocation whose
\* restore tool failed runs no block and no dump tool and ends raising the
\* restore failure, and its steps from the tool's end to the raise leave the
\* marker, the directories and the linkage as they are.
C15_RestoreFailureKeepsSnapshot ==
    /\ [](variant \in {"early", "claude", "o1"} =>
            \A p \in Procs :
                exc[p] = "RestoreFailed" =>
                    /\ ranBlock[p] = "none" /\ dump[p] = "none" /\ ~ForkRan(p)
                    /\ (Ended(p) /\ outcome[p] # "killed") => outcome[p] = "raised")
    /\ [][(variant \in {"early", "claude", "o1"}) =>
            \A p \in Procs : RestoreFailureStep(p) => SnapshotKept]_vars

\* C16: corrupt snapshot in ckpt_execvp.py: an invocation that took the
\* restore path and ended (no clear operation having run yet) without a
\* successful restore has raised the restore
\* RuntimeError; and clear_checkpoints(context), run on the identity's
\* existing record, leaves no marker for the next call to find.
C16_CorruptSnapshot ==
    /\ [](variant = "execvp" =>
            \A p \in Procs :
                (clears = 0 /\ RestoreRan(p) /\ Ended(p)
                    /\ outcome[p] \notin {"restored", "killed"})
                    => (outcome[p] = "raised" /\ exc[p] = "RestoreFailed"))
    /\ [][(variant = "execvp" /\ ClearContext /\ baseDir) => ~MarkerExists']_vars

\* the flock attempt of p ends (the step that leaves the flock call)
FlockAttemptEnds(p) ==
    pc[p] = "flock" /\ pc'[p] # "flock" /\ outcome'[p] # "killed"

\* C17: restore is covered by the lock in ckpt_execvp.py: while the restore
\* tool started by one invocation is running, the flock attempt of any other
\* invocation is refused, so that none gets past lock acquisition.
C17_RestoreUnderLock ==
    [][variant = "execvp" =>
          \A p, q \in Procs :
              (p # q /\ pc[p] = "exec" /\ FlockAttemptEnds(q))
                  => flockRes'[q] = "refused"]_vars

\* C18: clear-all against a held lock in ckpt_execvp.py: clear_checkpoints()
\* without context leaves the lock file of a lock that is held in place, so
\* that the name crio.lock goes on naming the file the holder has locked.
C18_ClearAllKeepsHeldLock ==
    [][(variant = "execvp" /\ ClearAll) =>
          \A p \in Procs : HoldsLock(p) => lockPath' = ofdInode[p]]_vars

\* C19: path setup under a race in ckpt_execvp.py: with no clear operation
\* run since its call began, an invocation does not fail before its flock
\* attempt, that is, in making the directories and the linkage.
C19_PathSetupRace ==
    variant = "execvp" =>
        \A p \in Procs :
            (~clearedSince[p] /\ flockRes[p] = "none") => exc[p] = "none"

\* C20: single-identity clear in ckpt_execvp.py: from every state of the
\* identity's record, after clear_checkpoints(context) neither directory
\* exists and the marker is absent, the other identity's record is unchanged,
\* and with both directories absent nothing changes.
C20_SingleIdentityClear ==
    [][(variant = "execvp" /\ ClearContext) =>
          /\ ~baseDir' /\ ~tmpDir' /\ ~marker'
          /\ other' = other
          /\ (~baseDir /\ ~tmpDir) => UNCHANGED fsVars]_vars

\* C21: best-effort bulk clear in ckpt_execvp.py: after clear_checkpoints()
\* without context, whichever removal failed, every entry whose own removal
\* did not fail is gone: this identity's directory under the root unless the
\* root's removal failed, and its working directory unless that removal
\* failed.
C21_BestEffortClear ==
    [][(variant = "execvp" /\ ClearAll) =>
          /\ clearExc' # "root" => ~baseDir'
          /\ clearExc' # "tmp" => ~tmpDir']_vars

\* C22: linkage immutability in ckpt_execvp.py: no step of a checkpoint call
\* (any step that is not a clear operation) removes the ckpt link once it
\* exists; the link comes into being only by the creation step of a call that
\* found none; and a call that tests for the link while it exists goes on to
\* the lock without attempting to create it.
C22_LinkageImmutable ==
    [][(variant = "execvp" /\ clears' = clears) =>
          /\ link => link'
          /\ (~link /\ link') =>
                \E p \in Procs : pc[p] = "linkcreate" /\ pc'[p] = "open"
          /\ \A p \in Procs :
                (pc[p] = "linktest" /\ baseDir /\ link /\ tmpDir
                    /\ pc'[p] \notin {"linktest", "done"})
                    => pc'[p] = "open"]_vars

\* C22 happens: a call that began after an earlier call's dump, the record
\* untouched since, has passed the linkage test and found the link in place
C22_Witness ==
    \E p \in Procs :
        /\ variant = "execvp"
        /\ markerAtStart[p] /\ ~clearedSince[p]
        /\ link /\ pc[p] = "open"

\* the two contexts are equal: both None, or dicts with the same keys and the
\* same value under each
SameContext(a, b) ==
    /\ a.none = b.none
    /\ {a.items[i] : i \in 1..Len(a.items)} = {b.items[i] : i \in 1..Len(b.items)}

ValueOf(d, k) == d[CHOOSE i \in 1..Len(d) : d[i][1] = k][2]

\* the record rec is the built-in facts overridden by the context ctx
MergedFrom(rec, ctx, e) ==
    /\ Distinct(KeysOf(rec))
    /\ {rec[i][1] : i \in 1..Len(rec)}
          = {"python_version", "env"} \cup {ctx.items[i][1] : i \in 1..Len(ctx.items)}
    /\ \A i \in 1..Len(ctx.items) :
          ValueOf(rec, ctx.items[i][1]) = ctx.items[i][2]
    /\ ~HasKey(ctx.items, "python_version")
          => ValueOf(rec, "python_version") = Version
    /\ ~HasKey(ctx.items, "env")
          => ValueOf(rec, "env") = <<"dict", EnvDict(e)>>

\* C24: context merge in _generate_checkpoint_id: the record that is
\* serialised and hashed has the built-in keys and the caller's keys and no
\* others; every caller key has the caller's value, a built-in key with the
\* same name included; a built-in key the caller did not pass has its
\* built-in value; and the identity is the digest of that record.
C24_ContextMerge ==
    /\ idA # -1 => /\ MergedFrom(recA, ctxA, environ)
                   /\ idA = Digest(Dumps(recA), 7)
    /\ idB # -1 => /\ MergedFrom(recB, ctxB, environ)
                   /\ idB = Digest(Dumps(recB), 7)

\* C24 happens: a call has returned whose context overrides one built-in key
\* and leaves the other
C24_Witness ==
    /\ idA # -1
    /\ HasKey(ctxA.items, "env") /\ ~HasKey(ctxA.items, "python_version")
    /\ Len(ctxA.items) = 2

\* C25: failed acquisition leaves the lock untouched in ckpt_execvp.py: no
\* step of an invocation whose flock attempt was refused changes the lock
\* another process holds: the lock file stays at its path, the path goes on
\* naming the file the holder has locked, and the holder still holds it.
C25_FailedAcquisitionFrame ==
    [][variant = "execvp" =>
          \A p, q \in Procs :
              (/\ p # q
               /\ flockRes[p] = "refused" /\ pc'[p] # pc[p]
               /\ HoldsLock(q) /\ lockPath = ofdInode[q])
                  => (lockPath' = lockPath /\ HoldsLock(q)')]_vars

\* C26: restore failure is confined to its identity in ckpt_fixed_claude.py
\* and ckpt_fixed_o1_attempt_1.py: the steps of an invocation from the end of
\* its failed restore tool to the raise leave the record of the other
\* identity as it is, whatever the context argument.
C26_RestoreFailureConfined ==
    [][(variant \in {"claude", "o1"}) =>
          \A p \in Procs : RestoreFailureStep(p) => other' = other]_vars

\* C27: block not re-run after a child restore in ckpt_fixed_claude.py and
\* ckpt_fixed_o1_attempt_1.py: an invocation that took the restore path never
\* has the caller's block run in the calling process.
C27_NoBlockAfterRestore ==
    variant \in {"claude", "o1"} =>
        \A p \in Procs :
            path[p] = "restore" => (pc[p] # "body" /\ ranBlock[p] # "caller")

\* C28: the restore path completes normally in ckpt_early.py and cryo/ckpt.py:
\* an invocation that took the restore path, whose restore tool did not fail,
\* and that has ended by itself, has released its lock and returned to its
\* caller with no exception.
C28_RestoreReturns ==
    variant \in {"early", "cryo"} =>
        \A p \in Procs :
            (path[p] = "restore" /\ Ended(p) /\ outcome[p] # "killed"
                /\ exc[p] # "RestoreFailed")
                => (outcome[p] = "returned" /\ exc[p] = "none" /\ ~ofdLocked[p])

\* a step of p's worker itself
WorkerStep(p) == w'[p] # w[p] /\ pc'[p] = pc[p]

\* C29: the worker leaves the call cleanly in ckpt_fixed_claude.py: a worker
\* that has left checkpoint() after being resumed has left it without an
\* exception, and no step of the worker removes the lock file or takes the
\* lock from the controller.
C29_WorkerLeavesCleanly ==
    /\ [](variant = "claude" =>
            \A p \in Procs : w[p] = "left" => wexc[p] = "none")
    /\ [][(variant = "claude") =>
            \A p \in Procs :
                WorkerStep(p) =>
                    /\ lockPath' = lockPath
                    /\ HoldsLock(p) => HoldsLock(p)']_vars

\* the controller of ckpt_early.py is between its granted flock and the end of
\* the marker's creation
BeforeMarker(p) == pc[p] \in {"check", "fork", "wait", "dump", "dumping", "touch"}

\* C30: the lock is held through marker creation in ckpt_early.py: from the
\* granted flock to the marker's creation the controller holds the lock, the
\* worker's close of its inherited descriptor included; the step that writes
\* the marker is taken with the lock held and keeps it; and a controller that
\* forked gives the lock up (other than by being terminated from outside) only
\* after it wrote the marker or after its dump path failed.
C30_LockHeldToMarker ==
    /\ [](variant = "early" =>
            \A p \in Procs : BeforeMarker(p) => HoldsLock(p))
    /\ [][(variant = "early") =>
            \A p \in Procs :
                /\ (pc[p] = "touch" /\ pc'[p] = AfterTouch) =>
                        (marker' /\ HoldsLock(p) /\ HoldsLock(p)')
                /\ (ForkRan(p) /\ HoldsLock(p) /\ ~HoldsLock(p)'
                        /\ outcome'[p] # "killed") =>
                        \/ exc[p] # "none"
                        \/ dump[p] = "ok" /\ (marker \/ clearedSince[p])]_vars

\* the controller of ckpt_early.py has written the marker and still holds the
\* lock, its worker having closed the inherited descriptor and stopped
C30_Witness ==
    \E p \in Procs :
        /\ variant = "early" /\ pc[p] = "osexit" /\ exc[p] = "none"
        /\ dump[p] = "ok" /\ marker /\ w[p] = "stopped" /\ ~wfd[p]
        /\ HoldsLock(p)

\* C31: progress of the helper variant, ckpt_fixed_r1.py: whenever the
\* calling process has stopped itself after the block, it is resumed in the
\* end (by the helper's SIGCONT, sent once the stop was observed and the dump
\* tool was run), so it does not stay suspended for ever.
C31_HelperProgress ==
    \A p \in Procs :
        (variant = "r1" /\ mstate[p] = "stopped") ~> (mstate[p] = "running")

====
